---- MODULE Spec2Model ----
(***************************************************************************)
(* Cap-table engine (FinancialEngine in src/src/utils/financial-engine.ts) *)
(* as a state machine: a caller validates a scenario, runs                 *)
(* calculateCapTable over it one financing round at a time, and simulates  *)
(* an exit on the final state.                                             *)
(*                                                                         *)
(* Numbers.  A JavaScript number is modelled as an exact rational          *)
(* <<n, d>> in lowest terms with d > 0, extended with the three special    *)
(* values of IEEE arithmetic: NaN = <<0, 0>>, +Infinity = <<1, 0>>,        *)
(* -Infinity = <<-1, 0>>.  An absent optional numeric field (undefined) is *)
(* NaN: the code only tests such fields for truthiness or uses them in     *)
(* arithmetic, and ToNumber(undefined) is NaN.  Binary rounding error and  *)
(* the sign of zero are not modelled.                                      *)
(*                                                                         *)
(* Objects.  The only object the engine ever shares between two states and *)
(* then writes to is the esop record, so esop records live in a heap and a *)
(* state holds a reference to one.  Founder and investor records are       *)
(* always rebuilt by map(), never written in place, and are values.        *)
(* Display names (founder.name, `${round.name} Investor`) are carried      *)
(* through unchanged by the code and take part in no computation; they are *)
(* left out.                                                               *)
(***************************************************************************)
EXTENDS Integers, Sequences, FiniteSets, TLC

VARIABLES scenario, pc, states, heap, results, error, errors, exit

vars == <<scenario, pc, states, heap, results, error, errors, exit>>

(***************************************************************************)
(* Number arithmetic                                                       *)
(***************************************************************************)
RECURSIVE GCD(_, _)
GCD(a, b) == IF b = 0 THEN a ELSE GCD(b, a % b)

AbsInt(n) == IF n < 0 THEN -n ELSE n

Sgn(n) == IF n > 0 THEN 1 ELSE IF n < 0 THEN -1 ELSE 0

\* n/d as a number: lowest terms, positive denominator; x/0 is an infinity
\* of the sign of x, 0/0 is NaN.
Norm(n, d) ==
  IF d = 0 THEN <<Sgn(n), 0>>
  ELSE LET g == GCD(AbsInt(n), AbsInt(d))
           s == IF d < 0 THEN -1 ELSE 1
       IN  <<s * (n \div g), s * (d \div g)>>

NaN == <<0, 0>>

Num(n) == <<n, 1>>

IsNaN(x) == x = NaN

IsFinite(x) == x[2] # 0

\* x * y, cross-reduced before multiplying.
Mul(x, y) ==
  IF ~IsFinite(x) \/ ~IsFinite(y) THEN Norm(x[1] * y[1], x[2] * y[2])
  ELSE LET g1 == GCD(AbsInt(x[1]), y[2])
           g2 == GCD(AbsInt(y[1]), x[2])
       IN  Norm((x[1] \div g1) * (y[1] \div g2), (x[2] \div g2) * (y[2] \div g1))

\* 1 / x  (1/0 is +Infinity, 1/Infinity is 0, 1/NaN is NaN).
Recip(x) ==
  IF x[1] < 0 THEN <<-x[2], -x[1]>>
  ELSE IF x[2] = 0 THEN (IF x[1] = 0 THEN NaN ELSE <<0, 1>>)
  ELSE <<x[2], x[1]>>

Div(x, y) == Mul(x, Recip(y))

\* x + y over the least common denominator.
Add(x, y) ==
  IF IsNaN(x) \/ IsNaN(y) THEN NaN
  ELSE IF ~IsFinite(x) /\ ~IsFinite(y) THEN (IF x = y THEN x ELSE NaN)
  ELSE IF ~IsFinite(x) THEN x
  ELSE IF ~IsFinite(y) THEN y
  ELSE LET g == GCD(x[2], y[2])
       IN  Norm(x[1] * (y[2] \div g) + y[1] * (x[2] \div g), (x[2] \div g) * y[2])

Neg(x) == <<-x[1], x[2]>>

Sub(x, y) == Add(x, Neg(y))

\* x < y; false when either side is NaN.
Less(x, y) ==
  IF IsNaN(x) \/ IsNaN(y) THEN FALSE
  ELSE IF ~IsFinite(x) \/ ~IsFinite(y)
       THEN (x = <<-1, 0>> /\ y # <<-1, 0>>) \/ (y = <<1, 0>> /\ x # <<1, 0>>)
  ELSE LET g == GCD(x[2], y[2])
       IN  x[1] * (y[2] \div g) < y[1] * (x[2] \div g)

\* x <= y; false when either side is NaN.
Leq(x, y) == ~IsNaN(x) /\ ~IsNaN(y) /\ ~Less(y, x)

\* Math.abs
Abs(x) == <<AbsInt(x[1]), x[2]>>

\* Math.min of two numbers: NaN when either is NaN.
Min(x, y) == IF IsNaN(x) \/ IsNaN(y) THEN NaN ELSE IF Less(y, x) THEN y ELSE x

\* Math.round: the nearest integer, halves towards +Infinity.
Round(x) ==
  IF ~IsFinite(x) THEN x
  ELSE LET q == x[1] \div x[2]
           r == x[1] - q * x[2]
       IN  <<IF r >= x[2] - r THEN q + 1 ELSE q, 1>>

\* Math.round(x * y), the product taken in two parts so that no
\* intermediate numerator outgrows the integers: with x * y = a * c / e and
\* a = q * e + r, the product is q * c + r * c / e.
RoundMul(x, y) ==
  IF ~IsFinite(x) \/ ~IsFinite(y) THEN Round(Mul(x, y))
  ELSE LET g1 == GCD(AbsInt(x[1]), y[2])
           g2 == GCD(AbsInt(y[1]), x[2])
           a == x[1] \div g1
           c == y[1] \div g2
           e == (x[2] \div g2) * (y[2] \div g1)
           q == a \div e
           r == a - q * e
       IN  Add(Num(q * c), Round(Norm(r * c, e)))

\* JavaScript truthiness of a possibly absent number: false for undefined,
\* NaN and 0.
Truthy(x) == ~IsNaN(x) /\ x[1] # 0

\* array.reduce((sum, e) => sum + e, 0)
RECURSIVE SumSeq(_)
SumSeq(s) == IF s = <<>> THEN Num(0) ELSE Add(SumSeq(SubSeq(s, 1, Len(s) - 1)), s[Len(s)])

Hundred == Num(100)

\* x / 100
Pct(x) == Div(x, Hundred)

(***************************************************************************)
(* Inputs                                                                  *)
(***************************************************************************)
MaxFounders == 2

MaxPools == 1

MaxRounds == 2

INITIAL_SHARES == 10000000

\* |x - 100| > 0.01, the test both createInitialState and validateScenario
\* apply to the sum of the founding percentages.
OffHundred(x) == Less(<<1, 100>>, Abs(Sub(x, Hundred)))

BoundedSeq(S, n) == UNION {[1..m -> S] : m \in 0..n}

\* founder.initialEquity values; 99.995 is not 100 but is within the 0.01
\* tolerance.
FounderEquityValues == {Num(10), Num(80), Num(90), Num(100), <<19999, 200>>}

\* pool.percentage values of the pools present at founding.
PoolPercentValues == {Num(10), Num(20)}

\* The terms of the rounds drawn; money is in units of 250,000 dollars (the
\* engine only ever takes ratios of amounts, so the unit is free).
\* A priced round carries pricedTerms with a
\* pre-money valuation, a post-money valuation or neither; a SAFE carries
\* safeTerms with or without a cap and a discount.  Absent fields are NaN.
PricedRound(capital, pre, post) ==
  [type |-> "PRICED", capitalRaised |-> capital,
   preMoneyValuation |-> pre, postMoneyValuation |-> post,
   valuationCap |-> NaN, discount |-> NaN]

SafeRound(capital, cap, discount) ==
  [type |-> "SAFE", capitalRaised |-> capital,
   preMoneyValuation |-> NaN, postMoneyValuation |-> NaN,
   valuationCap |-> cap, discount |-> discount]

\* round.esopAdjustment: absent, or a target percentage with its mode.
NoAdjustment == [present |-> FALSE, newPoolPercentage |-> NaN, isPreMoney |-> TRUE]

TopUp(target, isPreMoney) ==
  [present |-> TRUE, newPoolPercentage |-> target, isPreMoney |-> isPreMoney]

EsopAdjustments == {NoAdjustment, TopUp(Num(15), TRUE), TopUp(Num(15), FALSE)}

\* A priced round at a pre-money valuation and a capped SAFE come with
\* every adjustment; the other rounds come without one.
RoundInputs ==
  ( { PricedRound(Num(8), Num(32), NaN),
      SafeRound(Num(2), Num(20), NaN) } \X EsopAdjustments )
  \cup
  ( { PricedRound(Num(4), Num(16), NaN),
      PricedRound(Num(8), NaN, Num(48)),
      PricedRound(Num(4), NaN, NaN),
      SafeRound(Num(2), Num(40), Num(20)),
      SafeRound(Num(2), NaN, NaN) } \X {NoAdjustment} )

\* The round at position i of n.  Round ids are the caller's; here they run
\* against the positions, n-1 down to 0.
MakeRound(in, i, n) ==
  [id |-> n - i,
   type |-> in[1].type,
   capitalRaised |-> in[1].capitalRaised,
   preMoneyValuation |-> in[1].preMoneyValuation,
   postMoneyValuation |-> in[1].postMoneyValuation,
   valuationCap |-> in[1].valuationCap,
   discount |-> in[1].discount,
   esopAdjustment |-> in[2]]

MakeFounders(eq) == [i \in 1..Len(eq) |-> [id |-> i, initialEquity |-> eq[i]]]

\* founders.reduce(...initialEquity...) + esopPools.reduce(...percentage...)
TotalEquityPercent(founders, esopPools) ==
  Add(SumSeq([i \in 1..Len(founders) |-> founders[i].initialEquity]),
      SumSeq(esopPools))

\* Scenarios.  A complete scenario (the argument type of calculateCapTable)
\* whose founding percentages pass createInitialState's check comes with
\* every list of rounds; one that fails it comes with no rounds, as
\* calculateCapTable throws before it reads any.  A partial scenario
\* (validateScenario takes Partial<Scenario>) may have founders or esopPools
\* undefined.
Foundings ==
  BoundedSeq(FounderEquityValues, MaxFounders) \X BoundedSeq(PoolPercentValues, MaxPools)

\* createInitialState's check passes: |sum - 100| <= 0.01.
ValidFounding(f) == ~OffHundred(TotalEquityPercent(MakeFounders(f[1]), f[2]))

RoundLists == BoundedSeq(RoundInputs, MaxRounds)

CompleteScenario(f, ins) ==
  [foundersDefined |-> TRUE, poolsDefined |-> TRUE,
   founders |-> MakeFounders(f[1]), esopPools |-> f[2],
   rounds |-> [i \in 1..Len(ins) |-> MakeRound(ins[i], i, Len(ins))]]

PartialScenario(f, fd, pd) ==
  [foundersDefined |-> fd, poolsDefined |-> pd,
   founders |-> IF fd THEN MakeFounders(f[1]) ELSE <<>>,
   esopPools |-> IF pd THEN f[2] ELSE <<>>,
   rounds |-> <<>>]

\* exitValuation values passed to simulateExit.
ExitValuations == {Num(400), Num(120)}

(***************************************************************************)
(* createInitialState                                                      *)
(***************************************************************************)
\* Math.round((percentage / 100) * totalShares)
SharesOfPercent(percentage, totalShares) ==
  RoundMul(totalShares, Pct(percentage))

\* The state and the esop record createInitialState builds, or the error it
\* throws.  The state refers to its esop record by the reference `ref`.
CreateInitialState(founders, esopPools, ref) ==
  IF OffHundred(TotalEquityPercent(founders, esopPools))
  THEN [throws |-> TRUE, error |-> "Initial equity must sum to 100%"]
  ELSE LET totalShares == Num(INITIAL_SHARES)
       IN  [throws |-> FALSE,
            state |->
              [totalShares |-> totalShares,
               founders |->
                 [i \in 1..Len(founders) |->
                    [id |-> founders[i].id,
                     shares |-> SharesOfPercent(founders[i].initialEquity, totalShares),
                     percentage |-> founders[i].initialEquity]],
               esop |-> ref,
               investors |-> <<>>],
            esop |->
              [shares |->
                 SumSeq([i \in 1..Len(esopPools) |->
                           SharesOfPercent(esopPools[i], totalShares)]),
               percentage |-> SumSeq(esopPools)]]

(***************************************************************************)
(* processRound                                                            *)
(***************************************************************************)
\* PricedPricing with the share price taken from the post-money valuation.
PricedPricingOnPostMoney(totalShares, round) ==
  LET preMoney == IF Truthy(round.preMoneyValuation) THEN round.preMoneyValuation
                  ELSE Sub(round.postMoneyValuation, round.capitalRaised)
      postMoney == Add(preMoney, round.capitalRaised)
      sharePrice == Div(postMoney, totalShares)
  IN  [throws |-> FALSE, sharePrice |-> sharePrice, preMoney |-> preMoney,
       postMoney |-> postMoney,
       newShares |-> Div(round.capitalRaised, sharePrice)]

\* PRICED branch: share price, valuations and new shares of the round.
PricedPricing(totalShares, round) ==
  IF Truthy(round.preMoneyValuation)
  THEN LET preMoney == round.preMoneyValuation
           sharePrice == Div(preMoney, totalShares)
       IN  [throws |-> FALSE, sharePrice |-> sharePrice, preMoney |-> preMoney,
            postMoney |-> Add(preMoney, round.capitalRaised),
            newShares |-> Div(round.capitalRaised, sharePrice)]
  ELSE LET postMoney == round.postMoneyValuation
           preMoney == Sub(postMoney, round.capitalRaised)
           sharePrice == Div(preMoney, totalShares)
       IN  [throws |-> FALSE, sharePrice |-> sharePrice, preMoney |-> preMoney,
            postMoney |-> postMoney,
            newShares |-> Div(round.capitalRaised, sharePrice)]

\* SafePricing without the check for a cap: the absent cap flows on as NaN.
SafePricingWithoutCapCheck(totalShares, round) ==
  LET capPrice == Div(round.valuationCap, totalShares)
      sharePrice ==
        IF Truthy(round.discount)
        THEN Min(capPrice, Mul(capPrice, Sub(Num(1), Pct(round.discount))))
        ELSE capPrice
      preMoney == Mul(sharePrice, totalShares)
  IN  [throws |-> FALSE, sharePrice |-> sharePrice, preMoney |-> preMoney,
       postMoney |-> Add(preMoney, round.capitalRaised),
       newShares |-> Div(round.capitalRaised, sharePrice)]

\* SAFE branch: immediate conversion at the cap, or at the discounted cap
\* price when a discount is given; throws without a cap.
SafePricing(totalShares, round) ==
  IF ~Truthy(round.valuationCap)
  THEN [throws |-> TRUE,
        error |-> "SAFE without cap requires conversion round details"]
  ELSE LET capPrice == Div(round.valuationCap, totalShares)
           sharePrice ==
             IF Truthy(round.discount)
             THEN Min(capPrice,
                      Mul(capPrice, Sub(Num(1), Pct(round.discount))))
             ELSE capPrice
           preMoney == Mul(sharePrice, totalShares)
       IN  [throws |-> FALSE, sharePrice |-> sharePrice, preMoney |-> preMoney,
            postMoney |-> Add(preMoney, round.capitalRaised),
            newShares |-> Div(round.capitalRaised, sharePrice)]

Pricing(totalShares, round) ==
  IF round.type = "PRICED" THEN PricedPricing(totalShares, round)
  ELSE SafePricing(totalShares, round)

\* adjustESOPPool: the state it returns and the heap after it.  When the
\* target does not exceed the current pool percentage the same state, with
\* the same esop record, comes back; otherwise the state refers to a new
\* esop record.  totalShares is carried over unchanged in both modes.
AdjustESOPPool(state, h, targetPercent, isPreMoney, newSharesFromRound) ==
  LET esop == h[state.esop]
      currentESOPPercent == Mul(Div(esop.shares, state.totalShares), Hundred)
  IN  IF Leq(targetPercent, currentESOPPercent)
      THEN [state |-> state, heap |-> h]
      ELSE LET additionalESOPPercent == Sub(targetPercent, currentESOPPercent)
               preShares == Mul(Pct(additionalESOPPercent), state.totalShares)
               dilutionFactor ==
                 Div(state.totalShares, Add(state.totalShares, preShares))
               futureShares == Add(state.totalShares, newSharesFromRound)
               postShares == Sub(Mul(Pct(targetPercent), futureShares), esop.shares)
               additionalESOPShares == IF isPreMoney THEN preShares ELSE postShares
               founders ==
                 IF isPreMoney
                 THEN [i \in 1..Len(state.founders) |->
                         [state.founders[i] EXCEPT
                            !.shares = RoundMul(@, dilutionFactor)]]
                 ELSE state.founders
           IN  [state |-> [state EXCEPT !.founders = founders,
                                        !.esop = Len(h) + 1],
                heap |-> Append(h, [shares |-> Add(esop.shares, additionalESOPShares),
                                    percentage |-> targetPercent])]

\* AdmitInvestor with the new investor put in front of the earlier ones.
AdmitInvestorInFront(state, h, round, newShares) ==
  LET newTotalShares == Add(state.totalShares, newShares)
      percentOf(shares) == Mul(Div(shares, newTotalShares), Hundred)
  IN  [state |->
         [totalShares |-> newTotalShares,
          founders |->
            [i \in 1..Len(state.founders) |->
               [state.founders[i] EXCEPT !.percentage = percentOf(state.founders[i].shares)]],
          esop |-> state.esop,
          investors |->
            <<[id |-> <<"investor", round.id>>,
               shares |-> newShares,
               percentage |-> percentOf(newShares),
               investmentAmount |-> round.capitalRaised]>>
            \o [i \in 1..Len(state.investors) |->
                  [state.investors[i] EXCEPT
                     !.percentage = percentOf(state.investors[i].shares)]]],
       heap |-> [h EXCEPT ![state.esop].percentage =
                            percentOf(h[state.esop].shares)]]

\* processRound after the pool step: the new investor is admitted and every
\* percentage is recomputed against the new total.  The pool percentage is
\* written into the esop record the state refers to.
AdmitInvestor(state, h, round, newShares) ==
  LET newTotalShares == Add(state.totalShares, newShares)
      investorEquityPercent == Mul(Div(newShares, newTotalShares), Hundred)
      percentOf(shares) == Mul(Div(shares, newTotalShares), Hundred)
  IN  [state |->
         [totalShares |-> newTotalShares,
          founders |->
            [i \in 1..Len(state.founders) |->
               [state.founders[i] EXCEPT !.percentage = percentOf(state.founders[i].shares)]],
          esop |-> state.esop,
          investors |->
            Append([i \in 1..Len(state.investors) |->
                      [state.investors[i] EXCEPT
                         !.percentage = percentOf(state.investors[i].shares)]],
                   [id |-> <<"investor", round.id>>,
                    shares |-> newShares,
                    percentage |-> investorEquityPercent,
                    investmentAmount |-> round.capitalRaised])],
       heap |-> [h EXCEPT ![state.esop].percentage =
                            percentOf(h[state.esop].shares)]]

\* processRound.  postRoundState starts as a shallow copy of preRoundState:
\* the same field values, among them the same esop reference.
ProcessRound(preRoundState, h, round) ==
  LET pricing == Pricing(preRoundState.totalShares, round)
  IN  IF pricing.throws THEN [throws |-> TRUE, error |-> pricing.error]
      ELSE LET adjusted ==
                 IF round.esopAdjustment.present
                 THEN AdjustESOPPool(preRoundState, h,
                                     round.esopAdjustment.newPoolPercentage,
                                     round.esopAdjustment.isPreMoney,
                                     pricing.newShares)
                 ELSE [state |-> preRoundState, heap |-> h]
               post == AdmitInvestor(adjusted.state, adjusted.heap, round,
                                     pricing.newShares)
           IN  [throws |-> FALSE,
                postRoundState |-> post.state,
                heap |-> post.heap,
                result |-> [newShares |-> pricing.newShares,
                            sharePrice |-> pricing.sharePrice,
                            preMoney |-> pricing.preMoney,
                            postMoney |-> pricing.postMoney]]

(***************************************************************************)
(* simulateExit, validateScenario                                          *)
(***************************************************************************)
\* (percentage / 100) * exitValuation
CashReturn(percentage, exitValuation) == Mul(Pct(percentage), exitValuation)

SimulateExit(finalState, h, exitValuation) ==
  [exitValuation |-> exitValuation,
   founderReturns |->
     [i \in 1..Len(finalState.founders) |->
        [founderId |-> finalState.founders[i].id,
         finalEquity |-> finalState.founders[i].percentage,
         cashReturn |-> CashReturn(finalState.founders[i].percentage, exitValuation)]],
   esopValue |-> CashReturn(h[finalState.esop].percentage, exitValuation),
   investorReturns |->
     [i \in 1..Len(finalState.investors) |->
        [investorId |-> finalState.investors[i].id,
         finalEquity |-> finalState.investors[i].percentage,
         cashReturn |-> CashReturn(finalState.investors[i].percentage, exitValuation),
         multiple |-> Div(CashReturn(finalState.investors[i].percentage, exitValuation),
                          finalState.investors[i].investmentAmount)]]]

\* ValidateScenario with the option pools left out of the sum.
ValidateScenarioFoundersOnly(sc) ==
  (IF ~sc.foundersDefined \/ Len(sc.founders) = 0
   THEN <<"At least one founder is required">> ELSE <<>>)
  \o
  (IF sc.foundersDefined /\ OffHundred(TotalEquityPercent(sc.founders, <<>>))
   THEN <<"Total equity must sum to 100%">> ELSE <<>>)

\* The second check runs whenever scenario.founders is defined: an empty
\* array is truthy.
ValidateScenario(sc) ==
  (IF ~sc.foundersDefined \/ Len(sc.founders) = 0
   THEN <<"At least one founder is required">> ELSE <<>>)
  \o
  (IF sc.foundersDefined /\ OffHundred(TotalEquityPercent(sc.founders, sc.esopPools))
   THEN <<"Total equity must sum to 100%">> ELSE <<>>)

(***************************************************************************)
(* The caller: validateScenario, then calculateCapTable round by round,    *)
(* then simulateExit on the last state returned.                           *)
(***************************************************************************)
Init ==
  /\ \/ \E f \in Foundings :
          /\ ValidFounding(f)
          /\ \E ins \in RoundLists : scenario = CompleteScenario(f, ins)
     \/ \E f \in Foundings, fd \in BOOLEAN, pd \in BOOLEAN :
          scenario = PartialScenario(f, fd, pd)
  /\ pc = "init"
  /\ states = <<>>
  /\ heap = <<>>
  /\ results = <<>>
  /\ error = ""
  /\ errors = <<>>
  /\ exit = <<>>

\* validateScenario(scenario)
Validate ==
  /\ pc = "init"
  /\ errors' = ValidateScenario(scenario)
  /\ pc' = "validated"
  /\ UNCHANGED <<scenario, states, heap, results, error, exit>>

\* calculateCapTable, lines 16-20: the initial state is built and pushed.
\* The argument is a complete Scenario.
Start ==
  /\ pc = "validated"
  /\ scenario.foundersDefined /\ scenario.poolsDefined
  /\ LET r == CreateInitialState(scenario.founders, scenario.esopPools, 1)
     IN  IF r.throws
         THEN /\ pc' = "thrown"
              /\ error' = r.error
              /\ UNCHANGED <<states, heap>>
         ELSE /\ pc' = "loop"
              /\ states' = <<r.state>>
              /\ heap' = <<r.esop>>
              /\ UNCHANGED error
  /\ UNCHANGED <<scenario, results, errors, exit>>

\* calculateCapTable, lines 23-27: one iteration of the loop over
\* scenario.rounds.  currentState is the last state pushed.
Step ==
  /\ pc = "loop"
  /\ Len(states) <= Len(scenario.rounds)
  /\ LET r == ProcessRound(states[Len(states)], heap, scenario.rounds[Len(states)])
     IN  IF r.throws
         THEN /\ pc' = "thrown"
              /\ error' = r.error
              /\ UNCHANGED <<states, heap, results>>
         ELSE /\ states' = Append(states, r.postRoundState)
              /\ heap' = r.heap
              /\ results' = Append(results, r.result)
              /\ UNCHANGED <<pc, error>>
  /\ UNCHANGED <<scenario, errors, exit>>

\* calculateCapTable, line 29: the loop is over and states is returned.
Return ==
  /\ pc = "loop"
  /\ Len(states) > Len(scenario.rounds)
  /\ pc' = "returned"
  /\ UNCHANGED <<scenario, states, heap, results, error, errors, exit>>

\* simulateExit(states[states.length - 1], exitValuation)
Exit ==
  /\ pc = "returned"
  /\ exit = <<>>
  /\ \E v \in ExitValuations :
       exit' = <<SimulateExit(states[Len(states)], heap, v)>>
  /\ UNCHANGED <<scenario, pc, states, heap, results, error, errors>>

Next == Validate \/ Start \/ Step \/ Return \/ Exit

Spec == Init /\ [][Next]_vars

(***************************************************************************)
(* Properties                                                              *)
(***************************************************************************)
\* |x - y| <= tol; false when a NaN is involved.
Within(x, y, tol) == Leq(Abs(Sub(x, y)), tol)

\* The esop record state i refers to, as the heap holds it now.
EsopOf(i) == heap[states[i].esop]

FounderShares(i) == [j \in 1..Len(states[i].founders) |-> states[i].founders[j].shares]

InvestorShares(i) == [j \in 1..Len(states[i].investors) |-> states[i].investors[j].shares]

SharesSum(i) ==
  Add(Add(SumSeq(FounderShares(i)), EsopOf(i).shares), SumSeq(InvestorShares(i)))

PercentSum(i) ==
  Add(Add(SumSeq([j \in 1..Len(states[i].founders) |-> states[i].founders[j].percentage]),
          EsopOf(i).percentage),
      SumSeq([j \in 1..Len(states[i].investors) |-> states[i].investors[j].percentage]))

\* State i as a reader of the sequence sees it: every field, the esop
\* record read through its reference.
Snapshot(i) ==
  [totalShares |-> states[i].totalShares,
   founders |-> states[i].founders,
   esop |-> EsopOf(i),
   investors |-> states[i].investors]

\* The state processRound has just produced, the state it was given and the
\* round it applied: the last two states and the round between them.
Last == Len(states)

LastRound == scenario.rounds[Last - 1]

JustProcessed == pc = "loop" /\ Last >= 2

\* The pool percentage adjustESOPPool computes for the state given to the
\* last round.
PoolPercentBefore == Mul(Div(EsopOf(Last - 1).shares, states[Last - 1].totalShares), Hundred)

ToppedUp(isPreMoney) ==
  /\ LastRound.esopAdjustment.present
  /\ LastRound.esopAdjustment.isPreMoney = isPreMoney
  /\ Less(PoolPercentBefore, LastRound.esopAdjustment.newPoolPercentage)

\* C1: in every state of the sequence, founders' shares + pool shares +
\* investors' shares = totalShares.
C1_SharesSumToTotal ==
  \A i \in 1..Len(states) : SharesSum(i) = states[i].totalShares

\* C2: once calculateCapTable has returned, in every state of the sequence
\* the founders', pool's and investors' percentages sum to 100 within 0.01.
C2_PercentagesSumTo100 ==
  pc = "returned" =>
    \A i \in 1..Len(states) : Within(PercentSum(i), Hundred, <<1, 100>>)

\* Every round carries the pricing terms its type requires.
RoundsWellFormed ==
  \A k \in 1..Len(scenario.rounds) :
    IF scenario.rounds[k].type = "PRICED"
    THEN Truthy(scenario.rounds[k].preMoneyValuation)
           \/ Truthy(scenario.rounds[k].postMoneyValuation)
    ELSE Truthy(scenario.rounds[k].valuationCap)

\* C3: no step changes any field of a state already in the sequence.  (Stated
\* for scenarios whose rounds all carry their pricing terms, so that every
\* field is a number.)
C3_SnapshotsImmutable ==
  [][RoundsWellFormed => \A i \in 1..Len(states) : Snapshot(i)' = Snapshot(i)]_vars

\* Round k is priced and carries neither valuation.
PricedWithoutValuation(k) ==
  /\ scenario.rounds[k].type = "PRICED"
  /\ IsNaN(scenario.rounds[k].preMoneyValuation)
  /\ IsNaN(scenario.rounds[k].postMoneyValuation)

\* C4: a priced round with neither valuation fails: no state is produced for
\* it and calculateCapTable does not return a sequence.
C4_PricedWithoutValuationFails ==
  \A k \in 1..Len(scenario.rounds) :
    PricedWithoutValuation(k) => Len(states) <= k /\ pc # "returned"

\* Round k is a SAFE without a valuation cap.
UncappedSafe(k) ==
  /\ scenario.rounds[k].type = "SAFE"
  /\ ~Truthy(scenario.rounds[k].valuationCap)

\* C5: with a SAFE without a cap at position k, calculateCapTable never
\* returns, whatever came before k: the states of the earlier events stay
\* local to the call, no state is produced for event k, and the call ends
\* with the error "SAFE without cap requires conversion round details".
C5_UncappedSafeFailsWholeCall ==
  \A k \in 1..Len(scenario.rounds) :
    UncappedSafe(k) =>
      /\ pc # "returned"
      /\ exit = <<>>
      /\ Len(states) <= k
      /\ pc = "thrown" =>
           error = "SAFE without cap requires conversion round details"
      /\ (pc = "loop" /\ Len(states) = k) => ~ENABLED Return

\* An uncapped SAFE in second place has ended the call after the first
\* event was processed.
C5_Witness ==
  /\ pc = "thrown"
  /\ error = "SAFE without cap requires conversion round details"
  /\ Len(states) = 2
  /\ UncappedSafe(2)

\* C6: after a priced round with a pre-money top-up to a target above the
\* current pool percentage, the pool percentage is the target within 0.05
\* and every founder's percentage is strictly lower than before the round.
C6_PreMoneyTopUpReachesTarget ==
  (JustProcessed /\ LastRound.type = "PRICED" /\ ToppedUp(TRUE)) =>
    /\ Within(EsopOf(Last).percentage, LastRound.esopAdjustment.newPoolPercentage,
              <<1, 20>>)
    /\ \A j \in 1..Len(states[Last].founders) :
         Less(states[Last].founders[j].percentage,
              states[Last - 1].founders[j].percentage)

\* All cash returns of an exit simulation plus the pool's value.
ExitTotal(e) ==
  Add(Add(SumSeq([j \in 1..Len(e.founderReturns) |-> e.founderReturns[j].cashReturn]),
          SumSeq([j \in 1..Len(e.investorReturns) |-> e.investorReturns[j].cashReturn])),
      e.esopValue)

\* C7: simulateExit on the final state gives every holder percentage/100 x V
\* and the pool pool percentage/100 x V, and all of them sum to V within
\* the tolerance (0.01 percent of V, the tolerance of the percentage sum).
\* (Stated for scenarios whose rounds all carry their pricing terms.)
C7_ExitReturnsSumToValuation ==
  (exit # <<>> /\ RoundsWellFormed) =>
    LET e == exit[1]
        v == e.exitValuation
        final == states[Last]
    IN  /\ \A j \in 1..Len(final.founders) :
             e.founderReturns[j].cashReturn = Mul(Div(final.founders[j].percentage, Hundred), v)
        /\ \A j \in 1..Len(final.investors) :
             e.investorReturns[j].cashReturn = Mul(Div(final.investors[j].percentage, Hundred), v)
        /\ e.esopValue = Mul(Div(EsopOf(Last).percentage, Hundred), v)
        /\ Within(ExitTotal(e), v, Div(v, Num(10000)))

\* C8: calculateCapTable returns one state more than there are rounds; state
\* 0 has no investors; the state after event k has k investors, those of the
\* state before it in the same order with the same shares and invested
\* capital, then the investor of event k; the founders are those of the
\* scenario throughout.
C8_OneStatePerEventInvestorsAppended ==
  pc = "returned" =>
    /\ Len(states) = Len(scenario.rounds) + 1
    /\ states[1].investors = <<>>
    /\ \A i \in 1..Len(states) :
         /\ Len(states[i].founders) = Len(scenario.founders)
         /\ \A j \in 1..Len(scenario.founders) :
              states[i].founders[j].id = scenario.founders[j].id
    /\ \A k \in 1..Len(scenario.rounds) :
         LET before == states[k].investors
             after == states[k + 1].investors
         IN  /\ Len(after) = k
             /\ \A j \in 1..(k - 1) :
                  /\ after[j].id = before[j].id
                  /\ after[j].shares = before[j].shares
                  /\ after[j].investmentAmount = before[j].investmentAmount
             /\ after[k].id = <<"investor", scenario.rounds[k].id>>
             /\ after[k].investmentAmount = scenario.rounds[k].capitalRaised

\* Two events have been processed and their states returned.
C8_Witness ==
  /\ pc = "returned"
  /\ Len(scenario.rounds) = 2
  /\ Len(states) = 3
  /\ Len(states[3].investors) = 2
  /\ states[3].investors[1].id # states[3].investors[2].id

\* The last round was priced at a pre-money valuation, without a top-up, on
\* a state whose total is a number.
PricedAtPreMoneyNoTopUp ==
  /\ JustProcessed
  /\ LastRound.type = "PRICED"
  /\ Truthy(LastRound.preMoneyValuation)
  /\ ~LastRound.esopAdjustment.present
  /\ ~IsNaN(states[Last - 1].totalShares)

\* C9: a priced round at pre-money valuation P raising C with no top-up, on
\* a state with T total shares, issues C / (P / T) new shares, brings the
\* total to T + new shares, gives the new investor C / (P + C) x 100 percent,
\* leaves every existing holder's shares alone and sets every existing
\* holder's percentage to its shares / new total x 100.
C9_PricedRoundAtPreMoney ==
  PricedAtPreMoneyNoTopUp =>
    LET T == states[Last - 1].totalShares
        C == LastRound.capitalRaised
        P == LastRound.preMoneyValuation
        before == states[Last - 1]
        after == states[Last]
        newShares == Div(C, Div(P, T))
        newTotal == Add(T, newShares)
        n == Len(after.investors)
    IN  /\ results[Last - 1].newShares = newShares
        /\ after.totalShares = newTotal
        /\ n = Len(before.investors) + 1
        /\ after.investors[n].shares = newShares
        /\ after.investors[n].percentage = Mul(Div(C, Add(P, C)), Hundred)
        /\ \A j \in 1..Len(before.founders) :
             /\ after.founders[j].shares = before.founders[j].shares
             /\ after.founders[j].percentage
                  = Mul(Div(before.founders[j].shares, newTotal), Hundred)
        /\ EsopOf(Last).shares = EsopOf(Last - 1).shares
        /\ EsopOf(Last).percentage = Mul(Div(EsopOf(Last - 1).shares, newTotal), Hundred)
        /\ \A j \in 1..Len(before.investors) :
             /\ after.investors[j].shares = before.investors[j].shares
             /\ after.investors[j].percentage
                  = Mul(Div(before.investors[j].shares, newTotal), Hundred)

\* The instance: one founder at 100%, 1,000,000 raised at 4,000,000
\* pre-money gives 12,500,000 shares, founder 80%, investor 20%.
C9_Witness ==
  /\ PricedAtPreMoneyNoTopUp
  /\ Last = 2
  /\ LastRound.capitalRaised = Num(4)
  /\ LastRound.preMoneyValuation = Num(16)
  /\ Len(scenario.founders) = 1
  /\ scenario.founders[1].initialEquity = Hundred
  /\ states[2].totalShares = Num(12500000)
  /\ states[2].founders[1].percentage = Num(80)
  /\ states[2].investors[1].percentage = Num(20)

\* Readings of the scenario and of the error list.
Holds(list, msg) == \E j \in 1..Len(list) : list[j] = msg

NoFounder == ~scenario.foundersDefined \/ Len(scenario.founders) = 0

SumOffHundred ==
  OffHundred(Add(SumSeq([j \in 1..Len(scenario.founders) |->
                           scenario.founders[j].initialEquity]),
                 SumSeq(scenario.esopPools)))

OnlyTheTwoMessages ==
  /\ Len(errors) <= 2
  /\ \A j \in 1..Len(errors) :
       errors[j] \in {"At least one founder is required",
                      "Total equity must sum to 100%"}
  /\ Len(errors) = 2 => errors[1] # errors[2]

\* C10 as stated: the list holds "At least one founder is required" exactly
\* when the scenario has no founder, "Total equity must sum to 100%" exactly
\* when it has a founder and the founders' and pools' percentages are off
\* 100 by more than 0.01, and nothing else.
C10_SumMessageOnlyWithFounders ==
  pc # "init" =>
    /\ Holds(errors, "At least one founder is required") <=> NoFounder
    /\ Holds(errors, "Total equity must sum to 100%") <=> (~NoFounder /\ SumOffHundred)
    /\ OnlyTheTwoMessages

\* C10 as amended: "Total equity must sum to 100%" is in the list exactly
\* when the founders list is supplied, empty or not, and the sum is off 100
\* by more than 0.01; the list is empty exactly when there is a founder and
\* the sum is within the tolerance.
C10_SumMessageWheneverFoundersSupplied ==
  pc # "init" =>
    /\ Holds(errors, "At least one founder is required") <=> NoFounder
    /\ Holds(errors, "Total equity must sum to 100%")
         <=> (scenario.foundersDefined /\ SumOffHundred)
    /\ OnlyTheTwoMessages
    /\ errors = <<>> <=> (~NoFounder /\ ~SumOffHundred)

\* An empty founders list with a 10% pool gets both messages.
C10_Witness ==
  /\ pc = "validated"
  /\ scenario.foundersDefined
  /\ scenario.founders = <<>>
  /\ scenario.esopPools = <<Num(10)>>
  /\ errors = <<"At least one founder is required", "Total equity must sum to 100%">>

\* What processRound makes of the state given to the last round when the
\* round comes without its esopAdjustment.
LastRoundWithoutTopUp ==
  ProcessRound(states[Last - 1], heap,
               [LastRound EXCEPT !.esopAdjustment = NoAdjustment]).postRoundState

\* C11: after a round with a post-money top-up to a target above the current
\* pool percentage, the pool holds the target percentage of the total after
\* the round's new shares, and the new investor's and every founder's
\* percentage are strictly lower than after the same round without the
\* top-up, all lowered by the same ratio.  (Stated for states whose total is
\* a number.)
C11_PostMoneyTopUpDilutesAll ==
  (JustProcessed /\ ToppedUp(FALSE) /\ IsFinite(states[Last - 1].totalShares)) =>
    LET after == states[Last]
        plain == LastRoundWithoutTopUp
        n == Len(after.investors)
        futureShares == Add(states[Last - 1].totalShares, results[Last - 1].newShares)
        ratio == Div(after.investors[n].percentage, plain.investors[n].percentage)
    IN  /\ EsopOf(Last).shares
             = Mul(Pct(LastRound.esopAdjustment.newPoolPercentage), futureShares)
        /\ Less(after.investors[n].percentage, plain.investors[n].percentage)
        /\ \A j \in 1..Len(after.founders) :
             /\ Less(after.founders[j].percentage, plain.founders[j].percentage)
             /\ Div(after.founders[j].percentage, plain.founders[j].percentage) = ratio

====
